---- MODULE Spec2Model ----
(***************************************************************************)
(* Model of src/dashboard.py: a Streamlit script that loads a table of     *)
(* construction cost line items, filters it by the sidebar selections,     *)
(* optionally trims outliers, and renders chart sections from the result.   *)
(*                                                                         *)
(* A dataset (pandas DataFrame) is a sequence of rows; a row is a record    *)
(* indexed by column name.  Numeric cells are integers, a missing cell      *)
(* (pandas NaN) is the marker NaN.  Real arithmetic is kept exact by        *)
(* scaling: quantiles are held times QDen (0.05 = 1/20, 0.95 = 19/20),      *)
(* thresholds times TDen (1.5 = 3/2, 2 = 4/2), bounds times QDen * TDen.    *)
(* The code computes the same quantities in binary floating point; the      *)
(* model does not represent its rounding.                                   *)
(*                                                                         *)
(* Spec is a dashboard session: load_data, then the script run once with    *)
(* the widgets' defaults and again after every widget change.               *)
(* SpecOutliers is remove_outliers called directly, with columns and a      *)
(* threshold the dashboard itself never passes.                             *)
(***************************************************************************)
EXTENDS Integers, Sequences, FiniteSets, TLC

\* ------------------------------------------------------------------ bounds
\* rows of a CSV file the session may load
MaxRows == 2
\* rows of a dataset handed to remove_outliers on its own
MaxLen == 4
\* distinct seeds of the pseudo-random generator behind np.random
NumSeeds == 4

\* ------------------------------------------------------------------ values
\* pandas' missing value; every present cell of the model is >= 0
NaN == -1

CostColumns == <<"material_total", "equipment_total", "labor_total">>

\* denominators of the exact arithmetic
QDen == 20
TDen == 2
\* the quantiles of lines 87-88, times QDen
QLow == 1
QHigh == 19
\* threshold=2 of line 97 and the default threshold=1.5 of line 80, times TDen
CallThreshold == 4
DefaultThreshold == 3

\* ------------------------------------------------------ pandas primitives
\* df[mask], for a mask computed row by row, is SelectSeq(df, Keep): the rows
\* that pass Keep, in their original order.

\* the present (non-missing) values of a column, in row order
Column(rows, col) == [i \in 1..Len(rows) |-> rows[i][col]]

Present(d, col) ==
    LET IsPresent(row) == row[col] # NaN
    IN  Column(SelectSeq(d, IsPresent), col)

\* Series.quantile(num / QDen), linear interpolation between the two nearest
\* ranks of the sorted present values, times QDen; NaN when the column holds
\* no present value
Interpolate(vals, num) ==
    LET n    == Len(vals)
        pos  == num * (n - 1)
        lo   == pos \div QDen
        frac == pos % QDen
    IN  IF n = 0 THEN NaN
        ELSE IF frac = 0 THEN QDen * vals[lo + 1]
        ELSE QDen * vals[lo + 1] + frac * (vals[lo + 2] - vals[lo + 1])

Quantile(d, col, num) ==
    Interpolate(SortSeq(Present(d, col), LAMBDA a, b : a < b), num)

\* lines 87-91 for one column: the bounds times QDen * TDen, computed from src;
\* na when the quantiles are NaN (every comparison with NaN is False)
BoundsOf(Q1, Q3, threshold) ==
    LET IQR == Q3 - Q1
    IN  IF Q1 = NaN THEN [na |-> TRUE, lower |-> 0, upper |-> 0]
        ELSE [na    |-> FALSE,
              lower |-> TDen * Q1 - threshold * IQR,
              upper |-> TDen * Q3 + threshold * IQR]

Bounds(src, col, threshold) ==
    BoundsOf(Quantile(src, col, QLow), Quantile(src, col, QHigh), threshold)

\* (x >= lower_bound) & (x <= upper_bound) of line 92: False for a missing x
InBounds(x, b) ==
    /\ x # NaN
    /\ ~b.na
    /\ QDen * TDen * x >= b.lower
    /\ QDen * TDen * x <= b.upper

\* line 92 with the bounds taken from the trimmed dataset instead of df
TrimColumnProgressive(df, df_clean, col, threshold) ==
    LET b == Bounds(df_clean, col, threshold)
        Keep(row) == InBounds(row[col], b)
    IN  SelectSeq(df_clean, Keep)

\* line 92 filtering df instead of df_clean: earlier columns' filters are lost
TrimColumnFromDf(df, df_clean, col, threshold) ==
    LET b == Bounds(df, col, threshold)
        Keep(row) == InBounds(row[col], b)
    IN  SelectSeq(df, Keep)

\* line 92: df_clean filtered by col's bounds, the bounds computed from df
TrimColumn(df, df_clean, col, threshold) ==
    LET b == Bounds(df, col, threshold)
        Keep(row) == InBounds(row[col], b)
    IN  SelectSeq(df_clean, Keep)

\* the loop of lines 86-92 over the columns in order
RECURSIVE TrimLoop(_, _, _, _)
TrimLoop(df, df_clean, columns, threshold) ==
    IF columns = <<>> THEN df_clean
    ELSE TrimLoop(df, TrimColumn(df, df_clean, Head(columns), threshold),
                  Tail(columns), threshold)

\* remove_outliers without the copy of line 84, trimming the argument in place
RemoveOutliersInPlace(df, columns, threshold) ==
    [df |-> TrimLoop(df, df, columns, threshold),
     df_clean |-> TrimLoop(df, df, columns, threshold)]

\* remove_outliers: the function's locals when it returns; df is the dataset
\* passed in, df_clean the dataset returned
RemoveOutliersFrame(df, columns, threshold) ==
    [df |-> df, df_clean |-> TrimLoop(df, df, columns, threshold)]

remove_outliers(df, columns, threshold) ==
    RemoveOutliersFrame(df, columns, threshold).df_clean

\* --------------------------------------------------------- load_data
Columns ==
    {"file_name", "project_type", "project_year", "labor_total",
     "material_total", "equipment_total", "total_mat_lab_equip"}

\* range(50) of line 36
SampleSize == 50

\* the lists of lines 32-33
SampleTypes == <<"Residential", "Commercial", "Transportation", "Water", "Public">>
SampleYears == <<2020, 2021, 2022, 2023, 2024>>

\* np.random is a pseudo-random generator: every draw is a function of the
\* generator's state and advances it.  A 16-bit linear congruential generator
\* stands for it; the seed is the nondeterministic input.
NextRng(s) == (25173 * s + 13849) % 65536

\* np.random.choice(list)
Choice(list, s) == list[(s % Len(list)) + 1]

\* np.random.randint(low, high): low inclusive, high exclusive
RandInt(low, high, s) == low + (s % (high - low))

\* lines 37-52 with the total of line 42 leaving the equipment out
SampleRecordNoEquipment(i, s) ==
    LET s1 == NextRng(s)
        s2 == NextRng(s1)
        s3 == NextRng(s2)
        s4 == NextRng(s3)
        s5 == NextRng(s4)
        labor     == RandInt(10000, 500000, s3)
        material  == RandInt(20000, 700000, s4)
        equipment == RandInt(5000, 300000, s5)
    IN  [file_name           |-> i + 1,
         project_type        |-> Choice(SampleTypes, s1),
         project_year        |-> Choice(SampleYears, s2),
         labor_total         |-> labor,
         material_total      |-> material,
         equipment_total     |-> equipment,
         total_mat_lab_equip |-> labor + material]

\* lines 37-52: the record appended by iteration i (0-based), drawn from state s
SampleRecord(i, s) ==
    LET s1 == NextRng(s)
        s2 == NextRng(s1)
        s3 == NextRng(s2)
        s4 == NextRng(s3)
        s5 == NextRng(s4)
        labor     == RandInt(10000, 500000, s3)
        material  == RandInt(20000, 700000, s4)
        equipment == RandInt(5000, 300000, s5)
    IN  [file_name           |-> i + 1,
         project_type        |-> Choice(SampleTypes, s1),
         project_year        |-> Choice(SampleYears, s2),
         labor_total         |-> labor,
         material_total      |-> material,
         equipment_total     |-> equipment,
         total_mat_lab_equip |-> labor + material + equipment]

\* the generator's state after one iteration's five draws
AfterRecord(s) == NextRng(NextRng(NextRng(NextRng(NextRng(s)))))

\* line 23, df.iloc[:, 1:]: every column but the first
DropFirstColumn(row) == [c \in Columns |-> row[c]]

\* all sequences over S of length at most n
RECURSIVE SeqsUpTo(_, _)
SeqsUpTo(S, n) ==
    IF n = 0 THEN {<<>>}
    ELSE LET shorter == SeqsUpTo(S, n - 1)
         IN  shorter \cup {Append(s, x) : s \in {t \in shorter : Len(t) = n - 1}, x \in S}

\* the line items a CSV file may hold: file_name is a project's number (or
\* missing), a cost is present or missing; project_type and project_year are
\* always present, and a file holds at least one line item
CsvCosts == {<<5, 2, 3>>, <<NaN, 2, 0>>}
CsvRows ==
    {[file_name           |-> f,
      project_type        |-> t,
      project_year        |-> y,
      labor_total         |-> c[1],
      material_total      |-> c[2],
      equipment_total     |-> c[3],
      total_mat_lab_equip |-> IF c[1] = NaN THEN NaN ELSE c[1] + c[2] + c[3]] :
        f \in {1, 2, NaN}, t \in {"Commercial", "Residential"},
        y \in {2020, 2021}, c \in CsvCosts}

\* the rows read_csv returns for a file: a leading index column, then the data
CsvFile(d) == [i \in 1..Len(d) |-> [c \in Columns \cup {"Unnamed: 0"} |->
                                      IF c = "Unnamed: 0" THEN i - 1 ELSE d[i][c]]]
CsvFiles == {CsvFile(d) : d \in SeqsUpTo(CsvRows, MaxRows) \ {<<>>}}

\* ------------------------------------------------------ the script body
\* a selectbox value: 'All', or one of the column's values
AllSel == [all |-> TRUE]
Pick(v) == [all |-> FALSE, value |-> v]

\* lines 63 and 67: the options offered (their order is display only)
TypeOptions(d) == {AllSel} \cup {Pick(d[i].project_type) : i \in 1..Len(d)}
YearOptions(d) == {AllSel} \cup {Pick(d[i].project_year) : i \in 1..Len(d)}

\* DataFrame.empty
Empty(d) == Len(d) = 0

\* lines 71-75 with line 75 filtering df instead of filtered_df
ApplyFiltersYearFromDf(env, t, y) ==
    LET TypeIs(row) == row.project_type = t.value
        YearIs(row) == row.project_year = y.value
        e1 == [env EXCEPT !.filtered_df = env.df]
        e2 == IF ~t.all
              THEN [e1 EXCEPT !.filtered_df = SelectSeq(e1.filtered_df, TypeIs)]
              ELSE e1
    IN  IF ~y.all
        THEN [e2 EXCEPT !.filtered_df = SelectSeq(e2.df, YearIs)]
        ELSE e2

\* lines 71-75 on the script's names env = [df, filtered_df]
ApplyFilters(env, t, y) ==
    LET TypeIs(row) == row.project_type = t.value
        YearIs(row) == row.project_year = y.value
        e1 == [env EXCEPT !.filtered_df = env.df]
        e2 == IF ~t.all
              THEN [e1 EXCEPT !.filtered_df = SelectSeq(e1.filtered_df, TypeIs)]
              ELSE e1
    IN  IF ~y.all
        THEN [e2 EXCEPT !.filtered_df = SelectSeq(e2.filtered_df, YearIs)]
        ELSE e2

\* line 98: the number in "Removed N outliers"
RemovedCount(env) == Len(env.df) - Len(env.filtered_df)

\* a chart section without its guard
SectionUnguarded(frame) == "chart"

\* one chart section: `if not filtered_df.empty: <chart> else: st.warning(...)`
Section(frame) == IF ~Empty(frame) THEN "chart" ELSE "warning"

SectionNames ==
    {"Cost Breakdown by Project Type", "Cost Breakdown by Year",
     "Project Type Distribution", "Cost Correlation Matrix",
     "Distribution of Costs", "Projects Analysis"}

\* line 286: the download button is offered
DownloadOffered(frame) == ~Empty(frame)

\* a finite set of integers as a sequence
RECURSIVE SetToSeq(_)
SetToSeq(S) ==
    IF S = {} THEN <<>>
    ELSE LET m == CHOOSE x \in S : TRUE
         IN  <<m>> \o SetToSeq(S \ {m})

\* the ascending sequence of a finite set of integers
SortedSeq(S) == SortSeq(SetToSeq(S), LAMBDA a, b : a < b)

RECURSIVE SumSeq(_)
SumSeq(s) == IF s = <<>> THEN 0 ELSE Head(s) + SumSeq(Tail(s))

\* the rows of one group
GroupRows(frame, key) ==
    LET InGroup(row) == row.file_name = key
    IN  SelectSeq(frame, InGroup)

\* the group keys of groupby("file_name"): missing keys are dropped
GroupKeys(frame) == {frame[i].file_name : i \in 1..Len(frame)} \ {NaN}

\* lines 219-224: groupby("file_name").agg(sum, sum, sum, count).reset_index();
\* one row per present key, ascending; sum skips missing values
GroupBySum(frame) ==
    LET keys == SortedSeq(GroupKeys(frame))
    IN  [k \in 1..Len(keys) |->
            LET g == GroupRows(frame, keys[k])
            IN  [file_name       |-> keys[k],
                 labor_total     |-> SumSeq(Present(g, "labor_total")),
                 material_total  |-> SumSeq(Present(g, "material_total")),
                 equipment_total |-> SumSeq(Present(g, "equipment_total")),
                 file_count      |-> Len(Present(g, "file_name"))]]

\* ------------------------------------------------------------ the session
VARIABLES
    source,                 \* the state of the CSV file: readable, missing, unreadable
    pc,                     \* load, sample, loaded, shown, crashed; idle outside a session
    rng,                    \* the state of np.random's generator
    sample_data,            \* create_sample_data's list
    df,                     \* the loaded dataset (line 57)
    selected_project_type,  \* line 64
    selected_year,          \* line 68
    include_outliers,       \* line 78
    filtered_df,            \* the script's filtered_df when the script ends
    outlier_input,          \* the dataset handed to remove_outliers at line 97, after the call
    sidebar_info,           \* the numbers N of the "Removed N outliers" messages shown
    error_shown,            \* st.error of line 26 was shown
    sections,               \* what each chart section shows
    download,               \* the download button is offered
    df_grouped,             \* df_grouped of line 219, <<>> when not computed
    raised,                 \* an exception left the script
    arg_df, arg_columns, arg_threshold,    \* a direct call's arguments
    ret_once, ret_twice, ret_reversed,     \* and what the calls returned
    arg_after,              \* the dataset passed to the direct call, after it
    hpc                     \* start, once, twice, done; idle inside a session

svars == <<source, pc, rng, sample_data, df, selected_project_type, selected_year,
           include_outliers, filtered_df, outlier_input, sidebar_info, error_shown,
           sections, download, df_grouped, raised>>

hvars == <<arg_df, arg_columns, arg_threshold, ret_once, ret_twice,
           ret_reversed, arg_after, hpc>>

vars == <<svars, hvars>>

\* nothing rendered yet
Blank ==
    /\ rng = 0
    /\ sample_data = <<>>
    /\ df = <<>>
    /\ selected_project_type = AllSel
    /\ selected_year = AllSel
    /\ include_outliers = TRUE
    /\ filtered_df = <<>>
    /\ outlier_input = <<>>
    /\ sidebar_info = <<>>
    /\ error_shown = FALSE
    /\ sections = [s \in SectionNames |-> "none"]
    /\ download = FALSE
    /\ df_grouped = <<>>
    /\ raised = FALSE

HarnessIdle ==
    /\ arg_df = <<>>
    /\ arg_columns = <<>>
    /\ arg_threshold = 0
    /\ ret_once = <<>>
    /\ ret_twice = <<>>
    /\ ret_reversed = <<>>
    /\ arg_after = <<>>
    /\ hpc = "idle"

Init ==
    /\ source \in {"readable", "missing", "unreadable"}
    /\ pc = "load"
    /\ Blank
    /\ HarnessIdle

rendered == <<selected_project_type, selected_year, include_outliers, filtered_df,
              outlier_input, sidebar_info, sections, download, df_grouped>>

\* lines 22-24: read_csv succeeds
LoadCsv ==
    /\ pc = "load"
    /\ source = "readable"
    /\ \E file \in CsvFiles :
          df' = [i \in 1..Len(file) |-> DropFirstColumn(file[i])]
    /\ pc' = "loaded"
    /\ UNCHANGED <<source, rng, sample_data, error_shown, raised, rendered, hvars>>

\* lines 25-28: read_csv raises FileNotFoundError; create_sample_data is entered
LoadNotFound ==
    /\ pc = "load"
    /\ source = "missing"
    /\ error_shown' = TRUE
    /\ \E seed \in 1..NumSeeds : rng' = seed
    /\ sample_data' = <<>>
    /\ pc' = "sample"
    /\ UNCHANGED <<source, df, raised, rendered, hvars>>

\* read_csv raises anything else (a permission, parser, decoding or empty-data
\* error): no except clause matches and the exception leaves load_data
LoadUnreadable ==
    /\ pc = "load"
    /\ source = "unreadable"
    /\ raised' = TRUE
    /\ pc' = "crashed"
    /\ UNCHANGED <<source, rng, sample_data, df, error_shown, rendered, hvars>>

\* one iteration of the loop of lines 36-52
SampleStep ==
    /\ pc = "sample"
    /\ Len(sample_data) < SampleSize
    /\ sample_data' = Append(sample_data, SampleRecord(Len(sample_data), rng))
    /\ rng' = AfterRecord(rng)
    /\ UNCHANGED <<source, pc, df, error_shown, raised, rendered, hvars>>

\* line 54 and line 28: the list becomes the loaded dataset
SampleReturn ==
    /\ pc = "sample"
    /\ Len(sample_data) = SampleSize
    /\ df' = sample_data
    /\ pc' = "loaded"
    /\ UNCHANGED <<source, rng, sample_data, error_shown, raised, rendered, hvars>>

\* lines 96-98 on the script's names; frame holds remove_outliers' locals
Returned(env, frame) ==
    [env    |-> [env EXCEPT !.filtered_df = frame.df_clean],
     passed |-> frame.df,
     info   |-> <<RemovedCount([env EXCEPT !.filtered_df = frame.df_clean])>>]

OutlierStep(env) ==
    Returned(env, RemoveOutliersFrame(env.filtered_df, CostColumns, CallThreshold))

\* lines 71-98
Filtered(env, t, y, inc) ==
    IF ~inc THEN OutlierStep(ApplyFilters(env, t, y))
    ELSE [env |-> ApplyFilters(env, t, y), passed |-> <<>>, info |-> <<>>]

\* lines 100-293: what the page shows for the script's names
Render(t, y, inc, out) ==
    /\ selected_project_type' = t
    /\ selected_year' = y
    /\ include_outliers' = inc
    /\ df' = out.env.df
    /\ filtered_df' = out.env.filtered_df
    /\ outlier_input' = out.passed
    /\ sidebar_info' = out.info
    /\ sections' = [s \in SectionNames |-> Section(out.env.filtered_df)]
    /\ df_grouped' = IF ~Empty(out.env.filtered_df)
                     THEN GroupBySum(out.env.filtered_df) ELSE <<>>
    /\ download' = DownloadOffered(out.env.filtered_df)

\* the script from line 63 to its end, with the widgets' values t, y, inc
Script(t, y, inc) ==
    /\ Render(t, y, inc, Filtered([df |-> df, filtered_df |-> <<>>], t, y, inc))
    /\ pc' = "shown"
    /\ UNCHANGED <<source, rng, sample_data, error_shown, raised, hvars>>

\* the first run of a session: every widget holds its default
FirstRun ==
    /\ pc = "loaded"
    /\ Script(AllSel, AllSel, TRUE)

\* A widget changes and the script runs again with the other widgets' values
\* kept; load_data's result is cached, so df is the dataset of the first run.
ChangeProjectType ==
    /\ pc = "shown"
    /\ \E t \in TypeOptions(df) \ {selected_project_type} :
          Script(t, selected_year, include_outliers)

ChangeYear ==
    /\ pc = "shown"
    /\ \E y \in YearOptions(df) \ {selected_year} :
          Script(selected_project_type, y, include_outliers)

ToggleIncludeOutliers ==
    /\ pc = "shown"
    /\ Script(selected_project_type, selected_year, ~include_outliers)

Next ==
    \/ LoadCsv
    \/ LoadNotFound
    \/ LoadUnreadable
    \/ SampleStep
    \/ SampleReturn
    \/ FirstRun
    \/ ChangeProjectType
    \/ ChangeYear
    \/ ToggleIncludeOutliers

Spec == Init /\ [][Next]_vars

\* ------------------------------------------- remove_outliers on its own
\* Direct calls remove_outliers(d, columns, threshold) with arguments of the
\* caller's choosing: every small dataset over two cost columns, and two larger
\* datasets.
Cells == {NaN, 0, 1, 2}
HarnessRows ==
    {[labor_total |-> l, material_total |-> m] : l \in Cells, m \in {NaN, 0}}

HarnessColumnLists ==
    {<<"labor_total">>, <<"labor_total", "material_total">>,
     <<"material_total", "labor_total">>}

HarnessThresholds == {0, CallThreshold}

\* the values 1, 2, 3, 4, 100 in one column, the default threshold
QuartileScenario ==
    [df        |-> [i \in 1..5 |-> [total_mat_lab_equip |-> <<1, 2, 3, 4, 100>>[i]]],
     columns   |-> <<"total_mat_lab_equip">>,
     threshold |-> DefaultThreshold]

\* twenty line items of cost 0, one of cost 1 and one of cost 1000, the
\* threshold of line 97
SkewedScenario ==
    [df        |-> [i \in 1..22 |->
                      [labor_total    |-> IF i <= 20 THEN 0 ELSE IF i = 21 THEN 1 ELSE 1000,
                       material_total |-> 0]],
     columns   |-> <<"labor_total">>,
     threshold |-> CallThreshold]

HarnessInputs ==
    {[df |-> d, columns |-> c, threshold |-> t] :
        d \in SeqsUpTo(HarnessRows, MaxLen), c \in HarnessColumnLists,
        t \in HarnessThresholds}
    \cup {QuartileScenario, SkewedScenario}

Reverse(s) == [i \in 1..Len(s) |-> s[Len(s) + 1 - i]]

HInit ==
    /\ \E inp \in HarnessInputs :
          /\ arg_df = inp.df
          /\ arg_columns = inp.columns
          /\ arg_threshold = inp.threshold
    /\ ret_once = <<>>
    /\ ret_twice = <<>>
    /\ ret_reversed = <<>>
    /\ arg_after = <<>>
    /\ hpc = "start"
    /\ source = "readable"
    /\ pc = "idle"
    /\ Blank

\* the call's locals land in ret_once (returned) and arg_after (passed in)
Landed(frame) ==
    /\ ret_once' = frame.df_clean
    /\ arg_after' = frame.df

\* r = remove_outliers(d, columns, threshold)
Call ==
    /\ hpc = "start"
    /\ Landed(RemoveOutliersFrame(arg_df, arg_columns, arg_threshold))
    /\ hpc' = "once"
    /\ UNCHANGED <<arg_df, arg_columns, arg_threshold, ret_twice, ret_reversed, svars>>

\* remove_outliers(r, columns, threshold)
CallAgain ==
    /\ hpc = "once"
    /\ ret_twice' = remove_outliers(ret_once, arg_columns, arg_threshold)
    /\ hpc' = "twice"
    /\ UNCHANGED <<arg_df, arg_columns, arg_threshold, ret_once, ret_reversed,
                   arg_after, svars>>

\* remove_outliers(d, reversed(columns), threshold)
CallReversed ==
    /\ hpc = "twice"
    /\ ret_reversed' = remove_outliers(arg_df, Reverse(arg_columns), arg_threshold)
    /\ hpc' = "done"
    /\ UNCHANGED <<arg_df, arg_columns, arg_threshold, ret_once, ret_twice,
                   arg_after, svars>>

HNext == Call \/ CallAgain \/ CallReversed

SpecOutliers == HInit /\ [][HNext]_vars

\* ------------------------------------------------------------ properties
\* a is b with some of its rows left out
RECURSIVE IsSubSeq(_, _)
IsSubSeq(a, b) ==
    IF a = <<>> THEN TRUE
    ELSE IF b = <<>> THEN FALSE
    ELSE IF Head(a) = Head(b) THEN IsSubSeq(Tail(a), Tail(b))
    ELSE IsSubSeq(a, Tail(b))

\* x is a present value inside the bounds b
Within(x, b) ==
    x # NaN /\ ~b.na /\ b.lower <= QDen * TDen * x /\ QDen * TDen * x <= b.upper

\* row lies inside the bounds of every named column, the bounds taken from src
RowWithin(row, src, columns, threshold) ==
    \A k \in 1..Len(columns) :
        Within(row[columns[k]], Bounds(src, columns[k], threshold))

\* the rows of d that the selections t and y admit, in their original order
ViewOf(d, t, y) ==
    LET Matches(row) ==
            /\ t.all \/ row.project_type = t.value
            /\ y.all \/ row.project_year = y.value
    IN  SelectSeq(d, Matches)

\* the script's filtered_df after line 75
ViewAt75 == IF include_outliers THEN filtered_df ELSE outlier_input

\* the dataset is create_sample_data's: 50 records, each total the sum of its parts
SampleOk(d) ==
    /\ Len(d) = SampleSize
    /\ \A i \in 1..Len(d) :
          d[i].total_mat_lab_equip =
              d[i].labor_total + d[i].material_total + d[i].equipment_total

\* C1 as stated: outlier exclusion is idempotent, applying it to its own
\* result with the same columns and threshold returns that result unchanged.
C1_Idempotent == hpc \in {"twice", "done"} => ret_twice = ret_once

\* C1 as amended: every record of the result lies within the bounds computed
\* from the original dataset, in every named column, so filtering the result
\* again with those bounds removes nothing; a second application recomputes
\* the bounds from the trimmed data and returns the first result with zero or
\* more of its records left out.
C1_FixedBoundsIdempotent ==
    hpc \in {"twice", "done"} =>
        /\ \A i \in 1..Len(ret_once) :
              RowWithin(ret_once[i], arg_df, arg_columns, arg_threshold)
        /\ IsSubSeq(ret_twice, ret_once)

\* the second application removed records the first one kept, at threshold 2
C1_Witness ==
    /\ hpc = "twice"
    /\ arg_threshold = CallThreshold
    /\ Len(ret_twice) < Len(ret_once)
    /\ Len(ret_once) < Len(arg_df)

\* C2: a record is retained if and only if, for every named column, its value
\* is missing or lies within that column's bounds; a missing value never
\* removes a record.
C2_MissingIsRetained ==
    hpc # "start" =>
        LET Claimed(row) ==
                \A k \in 1..Len(arg_columns) :
                    \/ row[arg_columns[k]] = NaN
                    \/ Within(row[arg_columns[k]],
                              Bounds(arg_df, arg_columns[k], arg_threshold))
        IN  ret_once = SelectSeq(arg_df, Claimed)

\* C8: on the values 1, 2, 3, 4, 100 with multiplier 1.5 outlier exclusion
\* removes the record of value 100 and keeps the other four.
C8_QuartileScenario ==
    (hpc # "start" /\ arg_df = QuartileScenario.df
        /\ arg_columns = QuartileScenario.columns
        /\ arg_threshold = QuartileScenario.threshold)
    => ret_once = SubSeq(arg_df, 1, 4)

\* C10: the result does not depend on the order of the named columns; every
\* column's bounds come from the original dataset, so the result is the input's
\* rows that lie within all those bounds, in their original order.
C10_ColumnOrder ==
    hpc = "done" =>
        LET Kept(row) == RowWithin(row, arg_df, arg_columns, arg_threshold)
        IN  /\ ret_reversed = ret_once
            /\ ret_once = SelectSeq(arg_df, Kept)

\* two columns each removed a record and some record was kept
C10_Witness ==
    /\ hpc = "done"
    /\ Len(arg_columns) = 2
    /\ Len(ret_once) > 0
    /\ Len(remove_outliers(arg_df, <<arg_columns[1]>>, arg_threshold)) < Len(arg_df)
    /\ Len(ret_once) < Len(remove_outliers(arg_df, <<arg_columns[1]>>, arg_threshold))

\* C3: the filtered view holds exactly the records whose project_type is the
\* selected type (unless 'All') and whose project_year is the selected year
\* (unless 'All'), in their original order; with 'All' and 'All' it is the
\* loaded dataset.
C3_FilteredView ==
    pc = "shown" =>
        /\ ViewAt75 = ViewOf(df, selected_project_type, selected_year)
        /\ (selected_project_type.all /\ selected_year.all) => ViewAt75 = df

\* both filters are set, and the view keeps several records and drops others
C3_Witness ==
    /\ pc = "shown"
    /\ ~selected_project_type.all
    /\ ~selected_year.all
    /\ Len(ViewAt75) >= 2
    /\ Len(ViewAt75) < Len(df)

\* C4: no run of the script changes the loaded dataset, and the dataset handed
\* to remove_outliers holds after the call what it held before it (the view
\* of the selections), the trimmed records being a new dataset.
C4_ReceiverUnchanged ==
    [][(pc \in {"loaded", "shown"}) =>
          (/\ df' = df
           /\ ~include_outliers' =>
                 outlier_input' = ViewOf(df, selected_project_type', selected_year'))]_vars

\* remove_outliers dropped records of a view that a type selection had narrowed
C4_Witness ==
    /\ pc = "shown"
    /\ ~include_outliers
    /\ ~selected_project_type.all
    /\ Len(filtered_df) < Len(outlier_input)
    /\ Len(outlier_input) < Len(df)

\* C5: when the selections leave no record, with or without outlier
\* exclusion, nothing raises, every chart section shows the notice and computes
\* nothing, and no download is offered.
C5_EmptyIsValid ==
    (pc = "shown" /\ Empty(filtered_df)) =>
        /\ ~raised
        /\ \A s \in SectionNames : sections[s] = "warning"
        /\ df_grouped = <<>>
        /\ ~download

\* the selections left no record and remove_outliers ran on the empty view
C5_Witness ==
    /\ pc = "shown"
    /\ ~include_outliers
    /\ Empty(outlier_input)
    /\ Empty(filtered_df)
    /\ ~Empty(df)

\* C6: for each cost column the per-file sums, added up over the groups, equal
\* the column's sum over the filtered dataset's rows with a present cost,
\* rows without a file_name included.
C6_GroupSumConserved ==
    (pc = "shown" /\ sections["Projects Analysis"] = "chart") =>
        \A k \in 1..Len(CostColumns) :
            SumSeq(Column(df_grouped, CostColumns[k]))
                = SumSeq(Present(filtered_df, CostColumns[k]))

C9_RemovedCount ==
    (pc = "shown" /\ ~include_outliers) =>
        sidebar_info = <<Len(outlier_input) - Len(filtered_df)>>

====
